---------------------------- MODULE Spec2Model ----------------------------
(***************************************************************************)
(* Model of the yes/no tarot flow of bot.py: the card selector             *)
(* (pick_yesno_card_id), the answer classifier (yesno_answer_for_card) and *)
(* the conversation handlers that keep the per-user session state.         *)
(*                                                                         *)
(* Text is a sequence of Unicode code points, bytes are numbers 0..255 and *)
(* a 32-bit word of SHA-256 is a pair <<hi, lo>> of 16-bit halves, since   *)
(* TLC's integers are 32-bit signed.                                       *)
(***************************************************************************)
EXTENDS Integers, Sequences, FiniteSets, TLC

(***************************************************************************)
(* Python text and values.  A str is a sequence of code points; None is    *)
(* the one-element sequence <<-1>>, which is no str.                       *)
(***************************************************************************)
None == <<-1>>

\* x or default: None and the empty str are falsy
OrElse(x, default) == IF x = None \/ x = <<>> THEN default ELSE x

\* str.isspace() of one code point (Unicode White_Space as CPython has it)
IsSpace(c) ==
    \/ c \in 9..13
    \/ c \in 28..32
    \/ c \in {133, 160, 5760, 8232, 8233, 8239, 8287, 12288}
    \/ c \in 8192..8202

\* str.lower() of one code point: ASCII, Latin-1 and Cyrillic capitals
LowerChar(c) ==
    IF c \in 65..90 THEN c + 32
    ELSE IF c \in 192..222 /\ c # 215 THEN c + 32
    ELSE IF c \in 1040..1071 THEN c + 32
    ELSE IF c \in 1024..1039 THEN c + 80
    ELSE c

Lower(s) == [i \in 1..Len(s) |-> LowerChar(s[i])]

\* str.strip(): without leading and trailing whitespace
Strip(s) ==
    IF \A i \in 1..Len(s) : IsSpace(s[i]) THEN <<>>
    ELSE SubSeq(s,
             CHOOSE i \in 1..Len(s) :
                 ~IsSpace(s[i]) /\ \A j \in 1..(i - 1) : IsSpace(s[j]),
             CHOOSE i \in 1..Len(s) :
                 ~IsSpace(s[i]) /\ \A j \in (i + 1)..Len(s) : IsSpace(s[j]))

\* str.split(): the maximal runs of non-whitespace, in order
WordStarts(s) == {i \in 1..Len(s) : ~IsSpace(s[i]) /\ (i = 1 \/ IsSpace(s[i - 1]))}
WordEnd(s, i) ==
    CHOOSE j \in i..Len(s) :
        /\ (j = Len(s) \/ IsSpace(s[j + 1]))
        /\ \A k \in i..j : ~IsSpace(s[k])
NthWordStart(s, n) ==
    CHOOSE i \in WordStarts(s) : Cardinality({j \in WordStarts(s) : j < i}) = n - 1
Split(s) ==
    [n \in 1..Cardinality(WordStarts(s)) |->
        SubSeq(s, NthWordStart(s, n), WordEnd(s, NthWordStart(s, n)))]

\* sep.join(words), by halves
RECURSIVE Join(_, _)
Join(sep, words) ==
    IF Len(words) = 0 THEN <<>>
    ELSE IF Len(words) = 1 THEN words[1]
    ELSE Join(sep, SubSeq(words, 1, Len(words) \div 2)) \o sep
         \o Join(sep, SubSeq(words, (Len(words) \div 2) + 1, Len(words)))

\* str(n) for an int
RECURSIVE Digits(_)
Digits(n) == IF n < 10 THEN <<48 + n>> ELSE Append(Digits(n \div 10), 48 + (n % 10))
IntToStr(n) == IF n < 0 THEN <<45>> \o Digits(0 - n) ELSE Digits(n)

\* n in decimal, zero-padded to width w (the %04d and %02d of date.isoformat)
ZeroPad(n, w) ==
    [i \in 1..(w - Len(Digits(n))) |-> 48] \o Digits(n)

\* date.isoformat(): YYYY-MM-DD
IsoFormat(d) == ZeroPad(d.year, 4) \o <<45>> \o ZeroPad(d.month, 2) \o <<45>> \o ZeroPad(d.day, 2)

\* str.encode("utf-8")
Utf8Char(c) ==
    IF c < 128 THEN <<c>>
    ELSE IF c < 2048 THEN <<192 + (c \div 64), 128 + (c % 64)>>
    ELSE IF c < 65536
         THEN <<224 + (c \div 4096), 128 + ((c \div 64) % 64), 128 + (c % 64)>>
    ELSE <<240 + (c \div 262144), 128 + ((c \div 4096) % 64),
           128 + ((c \div 64) % 64), 128 + (c % 64)>>

\* the encodings of the code points in order, by halves
RECURSIVE Utf8Encode(_)
Utf8Encode(s) ==
    IF Len(s) = 0 THEN <<>>
    ELSE IF Len(s) = 1 THEN Utf8Char(s[1])
    ELSE Utf8Encode(SubSeq(s, 1, Len(s) \div 2))
         \o Utf8Encode(SubSeq(s, (Len(s) \div 2) + 1, Len(s)))

\* int.from_bytes of the leading two bytes, not reduced modulo m
FromBytesBig_unreduced(bytes, m) == bytes[1] * 256 + bytes[2]

\* int.from_bytes(bytes, "big") % m, reduced byte by byte so that no
\* intermediate value leaves the 32-bit range
RECURSIVE FromBytesBigMod(_, _)
FromBytesBigMod(bytes, m) ==
    IF bytes = <<>> THEN 0
    ELSE (FromBytesBigMod(SubSeq(bytes, 1, Len(bytes) - 1), m) * 256
          + bytes[Len(bytes)]) % m


(***************************************************************************)
(* hashlib.sha256: FIPS 180-4 SHA-256 over a sequence of bytes.            *)
(***************************************************************************)
Half == 65536

RECURSIVE XorBits(_, _)
XorBits(a, b) ==
    IF a = 0 THEN b
    ELSE IF b = 0 THEN a
    ELSE ((a + b) % 2) + 2 * XorBits(a \div 2, b \div 2)

RECURSIVE AndBits(_, _)
AndBits(a, b) ==
    IF a = 0 \/ b = 0 THEN 0
    ELSE ((a % 2) * (b % 2)) + 2 * AndBits(a \div 2, b \div 2)

\* bitwise tables over bytes, built once
XorTable == [a \in 0..255 |-> [b \in 0..255 |-> XorBits(a, b)]]
AndTable == [a \in 0..255 |-> [b \in 0..255 |-> AndBits(a, b)]]
Xor16(a, b) == XorTable[a \div 256][b \div 256] * 256 + XorTable[a % 256][b % 256]
And16(a, b) == AndTable[a \div 256][b \div 256] * 256 + AndTable[a % 256][b % 256]

WXor(x, y) == <<Xor16(x[1], y[1]), Xor16(x[2], y[2])>>
WAnd(x, y) == <<And16(x[1], y[1]), And16(x[2], y[2])>>
WNot(x) == <<(Half - 1) - x[1], (Half - 1) - x[2]>>
WAdd(x, y) ==
    <<(x[1] + y[1] + ((x[2] + y[2]) \div Half)) % Half, (x[2] + y[2]) % Half>>

\* rotate / shift right by n bits, 0 <= n < 32
RotrSmall(x, n) ==
    <<(x[1] \div (2 ^ n)) + (x[2] % (2 ^ n)) * (2 ^ (16 - n)),
      (x[2] \div (2 ^ n)) + (x[1] % (2 ^ n)) * (2 ^ (16 - n))>>
Rotr(x, n) == IF n >= 16 THEN RotrSmall(<<x[2], x[1]>>, n - 16) ELSE RotrSmall(x, n)
ShrSmall(x, n) ==
    <<x[1] \div (2 ^ n), (x[2] \div (2 ^ n)) + (x[1] % (2 ^ n)) * (2 ^ (16 - n))>>
Shr(x, n) == IF n >= 16 THEN ShrSmall(<<0, x[1]>>, n - 16) ELSE ShrSmall(x, n)

BigSigma0(x) == WXor(WXor(Rotr(x, 2), Rotr(x, 13)), Rotr(x, 22))
BigSigma1(x) == WXor(WXor(Rotr(x, 6), Rotr(x, 11)), Rotr(x, 25))
SmallSigma0(x) == WXor(WXor(Rotr(x, 7), Rotr(x, 18)), Shr(x, 3))
SmallSigma1(x) == WXor(WXor(Rotr(x, 17), Rotr(x, 19)), Shr(x, 10))
Ch(x, y, z) == WXor(WAnd(x, y), WAnd(WNot(x), z))
Maj(x, y, z) == WXor(WXor(WAnd(x, y), WAnd(x, z)), WAnd(y, z))

SHA256_H0 ==
    <<<<27145, 58983>>, <<47975, 44677>>, <<15470, 62322>>, <<42319, 62778>>,
      <<20750, 21119>>, <<39685, 26764>>, <<8067, 55723>>, <<23520, 52505>>>>

SHA256_K ==
    <<<<17034, 12184>>, <<28983, 17553>>, <<46528, 64463>>, <<59829, 56229>>,
      <<14678, 49755>>, <<23025, 4593>>, <<37439, 33444>>, <<43804, 24277>>,
      <<55303, 43672>>, <<4739, 23297>>, <<9265, 34238>>, <<21772, 32195>>,
      <<29374, 23924>>, <<32990, 45566>>, <<39900, 1703>>, <<49563, 61812>>,
      <<58523, 27073>>, <<61374, 18310>>, <<4033, 40390>>, <<9228, 41420>>,
      <<11753, 11375>>, <<19060, 33962>>, <<23728, 43484>>, <<30457, 35034>>,
      <<38974, 20818>>, <<43057, 50797>>, <<45059, 10184>>, <<48985, 32711>>,
      <<50912, 3059>>, <<54695, 37191>>, <<1738, 25425>>, <<5161, 10599>>,
      <<10167, 2693>>, <<11803, 8504>>, <<19756, 28156>>, <<21304, 3347>>,
      <<25866, 29524>>, <<30314, 2747>>, <<33218, 51502>>, <<37490, 11397>>,
      <<41663, 59553>>, <<43034, 26187>>, <<49739, 35696>>, <<51052, 20899>>,
      <<53650, 59417>>, <<54937, 1572>>, <<62478, 13701>>, <<4202, 41072>>,
      <<6564, 49430>>, <<7735, 27656>>, <<10056, 30540>>, <<13488, 48309>>,
      <<14620, 3251>>, <<20184, 43594>>, <<23452, 51791>>, <<26670, 28659>>,
      <<29839, 33518>>, <<30885, 25455>>, <<33992, 30740>>, <<36039, 520>>,
      <<37054, 65530>>, <<42064, 27883>>, <<48889, 41975>>, <<50801, 30962>>>>

\* the message followed by 0x80, zero bytes up to 56 mod 64, and the bit length
\* as 8 big-endian bytes (messages here are far shorter than 2^28 bytes)
Sha256Pad(msg) ==
    msg \o <<128>> \o [i \in 1..((119 - (Len(msg) % 64)) % 64) |-> 0]
        \o <<0, 0, 0, 0,
             ((8 * Len(msg)) \div 16777216) % 256, ((8 * Len(msg)) \div 65536) % 256,
             ((8 * Len(msg)) \div 256) % 256, (8 * Len(msg)) % 256>>

\* the 16 big-endian words of block b (1-based) of a padded message
Sha256Block(padded, b) ==
    [i \in 1..16 |->
        LET o == 64 * (b - 1) + 4 * (i - 1)
        IN  <<padded[o + 1] * 256 + padded[o + 2], padded[o + 3] * 256 + padded[o + 4]>>]

RECURSIVE Sha256Schedule(_)
Sha256Schedule(w) ==
    IF Len(w) = 64 THEN w
    ELSE LET t == Len(w) + 1
         IN  Sha256Schedule(Append(w,
                 WAdd(WAdd(SmallSigma1(w[t - 2]), w[t - 7]),
                      WAdd(SmallSigma0(w[t - 15]), w[t - 16]))))

\* one round: the working state <<a, b, c, d, e, f, g, h>> after adding T1 and T2
Sha256Step(s, t1, t2) ==
    <<WAdd(t1, t2), s[1], s[2], s[3], WAdd(s[4], t1), s[5], s[6], s[7]>>

\* rounds t..64 on working state s; testing Len(s) makes the state a value
\* before the next round is entered
RECURSIVE Sha256Rounds(_, _, _)
Sha256Rounds(s, w, t) ==
    IF t > 64 \/ Len(s) # 8 THEN s
    ELSE Sha256Rounds(
             Sha256Step(s,
                 WAdd(WAdd(WAdd(s[8], BigSigma1(s[5])), Ch(s[5], s[6], s[7])),
                      WAdd(SHA256_K[t], w[t])),
                 WAdd(BigSigma0(s[1]), Maj(s[1], s[2], s[3]))),
             w, t + 1)

Sha256AddState(h, s) == [i \in 1..8 |-> WAdd(h[i], s[i])]

Sha256Compress(h, block) ==
    Sha256AddState(h, Sha256Rounds(h, Sha256Schedule(block), 1))

RECURSIVE Sha256Blocks(_, _, _)
Sha256Blocks(h, padded, b) ==
    IF 64 * (b - 1) >= Len(padded) THEN h
    ELSE Sha256Blocks(Sha256Compress(h, Sha256Block(padded, b)), padded, b + 1)

\* the 8 state words as 32 big-endian bytes
Sha256Bytes(h) ==
    [i \in 1..32 |->
        IF (i - 1) % 4 = 0 THEN h[((i - 1) \div 4) + 1][1] \div 256
        ELSE IF (i - 1) % 4 = 1 THEN h[((i - 1) \div 4) + 1][1] % 256
        ELSE IF (i - 1) % 4 = 2 THEN h[((i - 1) \div 4) + 1][2] \div 256
        ELSE h[((i - 1) \div 4) + 1][2] % 256]

\* hashlib.sha256(key).digest(): 32 bytes
Sha256Digest(msg) == Sha256Bytes(Sha256Blocks(SHA256_H0, Sha256Pad(msg), 1))

(***************************************************************************)
(* State.  context.user_data of the one user of the session, the clock,    *)
(* the on_yesno_question coroutines in flight, and what was observed.      *)
(***************************************************************************)
VARIABLES
    uid,            \* the Telegram id of the session's user
    today,          \* the clock: date.today() is DayAt(today)
    yesno_state,    \* user_data[YESNO_STATE_KEY], "absent" when the key is not set
    yesno_data,     \* user_data[YESNO_DATA_KEY]: {} when not set, else {the dict}
    yesno_history,  \* user_data[YESNO_HISTORY_KEY]
    tasks,          \* on_yesno_question coroutines suspended after storing a draw
    last_sent,      \* the message the bot sent last
    observed_pick,  \* one earlier call of pick_yesno_card_id and what it returned
    clf,            \* a call of yesno_answer_for_card on its own
    sel,            \* calls of pick_yesno_card_id on their own
    personal_area_awaiting,  \* user_data["personal_area_awaiting"]: {} when not set, else {the field}
    personal_area_profile,   \* user_data["personal_area_profile"]: {} when not set, else {the dict}
    personal_area_message    \* user_data["personal_area_message"]: {} when not set, else {the ids}

area_vars == <<personal_area_awaiting, personal_area_profile, personal_area_message>>

vars == <<uid, today, yesno_state, yesno_data, yesno_history, tasks,
          last_sent, observed_pick, clf, sel, area_vars>>

flow_vars == <<uid, today, yesno_state, yesno_data, yesno_history, tasks,
               last_sent, observed_pick>>

(***************************************************************************)
(* Bounds and inputs of the model.                                         *)
(***************************************************************************)
MaxDay == 1         \* the clock runs over days 0..MaxDay
MaxHistory == 2     \* reveals are taken while the history is shorter
MaxTasks == 1       \* a handler goes on as a task while fewer tasks are in flight
MaxEdits == 2       \* cosmetic edits applied to a question before it is compared

UserIds == {42, 7}
SessionUsers == {42}    \* the user of the modelled chat

\* the calendar day i days after 2023-12-31 (within January 2024)
DayAt(i) ==
    IF i = 0 THEN [year |-> 2023, month |-> 12, day |-> 31]
    ELSE [year |-> 2024, month |-> 1, day |-> i]

Repeat(c, n) == [i \in 1..n |-> c]

\* message texts.  TXT_long_padded is, inside whitespace, a question of
\* exactly 300 characters, "A  aaa...a"; TXT_long_plain is that question
\* lower-cased with its inner whitespace collapsed, "a aaa...a"; TXT_over is
\* 301 characters; TXT_blank is whitespace only
TXT_long_padded == <<32, 65, 32, 32>> \o Repeat(97, 297) \o <<10>>
TXT_long_plain == <<97, 32>> \o Repeat(97, 297)
TXT_over == Repeat(97, 301)
TXT_blank == <<32, 10>>

Texts == {TXT_long_padded, TXT_long_plain, TXT_over, TXT_blank}

(***************************************************************************)
(* The card table (bot.py, _build_tarot_cards).  A str constant is spelled *)
(* as its code points.                                                     *)
(***************************************************************************)
STR_major == <<109, 97, 106, 111, 114>>
STR_wands == <<119, 97, 110, 100, 115>>
STR_cups == <<99, 117, 112, 115>>
STR_swords == <<115, 119, 111, 114, 100, 115>>
STR_pentacles == <<112, 101, 110, 116, 97, 99, 108, 101, 115>>
STR_yesno == <<121, 101, 115, 110, 111>>
COLON == <<58>>
SPACE == <<32>>

NumMajor == 22      \* len(MAJOR_ARCANA_NAMES)
NumRanks == 14      \* len(MINOR_RANKS)
SUIT_KEYS == <<STR_wands, STR_cups, STR_swords, STR_pentacles>>   \* SUIT_INFO's keys

\* a table whose builder restarts card_id at len(MAJOR_ARCANA_NAMES) for
\* every suit
TAROT_CARDS_id_restarted ==
    [i \in 1..(NumMajor + Len(SUIT_KEYS) * NumRanks) |->
        IF i <= NumMajor
        THEN [id |-> i - 1, suit |-> STR_major]
        ELSE [id |-> NumMajor + ((i - 1 - NumMajor) % NumRanks),
              suit |-> SUIT_KEYS[((i - 1 - NumMajor) \div NumRanks) + 1]]]

\* TAROT_CARDS[i + 1] is the card of id i; name and keywords are display text
\* and are left out
TAROT_CARDS ==
    [i \in 1..(NumMajor + Len(SUIT_KEYS) * NumRanks) |->
        IF i <= NumMajor
        THEN [id |-> i - 1, suit |-> STR_major]
        ELSE [id |-> i - 1, suit |-> SUIT_KEYS[((i - 1 - NumMajor) \div NumRanks) + 1]]]

YES_MAJOR == {1, 3, 6, 7, 10, 14, 17, 19, 21}
NO_MAJOR == {12, 13, 15, 16, 18}
INTUITION_MAJOR == {0, 2, 5, 8, 9, 11, 20, 4}
OVERRIDE_NO == {63, 58, 72}
OVERRIDE_INTUITION == {2, 9, 11, 12, 14, 55, 46}

(***************************************************************************)
(* The card selector.                                                      *)
(***************************************************************************)
NumCards == 78

\* (question or "").lower().strip(): inner whitespace runs are kept
NormalizeQuestion_keep_runs(question) == Strip(Lower(OrElse(question, <<>>)))

\* " ".join((question or "").lower().split())
NormalizeQuestion(question) == Join(SPACE, Split(Lower(OrElse(question, <<>>))))

\* f"yesno:{user_id}:{target_day.isoformat()}:{q}".encode("utf-8")
YesNoKey(user_id, target_day, q) ==
    Utf8Encode(STR_yesno \o COLON \o IntToStr(user_id) \o COLON
               \o IsoFormat(target_day) \o COLON \o q)

\* a selector that reads the last four bytes of the digest, digest[-4:]
pick_yesno_card_id_last_bytes(user_id, question, target_day) ==
    FromBytesBigMod(
        SubSeq(Sha256Digest(YesNoKey(user_id, target_day, NormalizeQuestion(question))), 29, 32),
        NumCards)

pick_yesno_card_id(user_id, question, target_day) ==
    FromBytesBigMod(
        SubSeq(Sha256Digest(YesNoKey(user_id, target_day, NormalizeQuestion(question))), 1, 4),
        NumCards)

\* len(question) > 300 refuses a question
MaxQuestionLen == 300

\* the calls the handlers can make: the session's user, a question
\* on_yesno_question accepts, a day of the clock
HandlerCalls ==
    {<<u, Strip(t), DayAt(d)>> :
        u \in SessionUsers, d \in 0..MaxDay,
        t \in {x \in Texts : Strip(x) # <<>> /\ Len(Strip(x)) <= MaxQuestionLen}}

\* pick_yesno_card_id over HandlerCalls, computed once
PickedCards == [c \in HandlerCalls |-> pick_yesno_card_id(c[1], c[2], c[3])]

\* a selector that hashes the question as typed, without normalising it
CallPick_as_typed(user_id, question, target_day) ==
    FromBytesBigMod(SubSeq(Sha256Digest(Utf8Encode(
        STR_yesno \o COLON \o IntToStr(user_id) \o COLON \o IsoFormat(target_day)
            \o COLON \o question)), 1, 4), NumCards)

\* a selector whose result moves with the length of the session's history
CallPick_history_salted(user_id, question, target_day) ==
    (PickedCards[<<user_id, question, target_day>>] + Len(yesno_history)) % NumCards

\* the call pick_yesno_card_id(user_id, question, target_day) of a handler
CallPick(user_id, question, target_day) ==
    IF <<user_id, question, target_day>> \in DOMAIN PickedCards
    THEN PickedCards[<<user_id, question, target_day>>]
    ELSE pick_yesno_card_id(user_id, question, target_day)

(***************************************************************************)
(* The answer classifier.                                                  *)
(***************************************************************************)
\* card.get("suit"): card is a dict; a missing key reads as None
CardSuit(card) == IF "suit" \in DOMAIN card THEN card.suit ELSE None

\* yesno_answer_for_card comparing the suit as given, without .lower()
yesno_answer_for_card_case_sensitive(card_id, card) ==
    IF card_id \in OVERRIDE_INTUITION THEN "intuition"
    ELSE IF card_id \in OVERRIDE_NO THEN "no"
    ELSE IF OrElse(CardSuit(card), <<>>) = STR_major \/ (0 <= card_id /\ card_id <= 21)
    THEN IF card_id \in YES_MAJOR THEN "yes"
         ELSE IF card_id \in NO_MAJOR THEN "no"
         ELSE "intuition"
    ELSE IF OrElse(CardSuit(card), <<>>) = STR_swords THEN "no"
    ELSE IF OrElse(CardSuit(card), <<>>) \in {STR_wands, STR_cups, STR_pentacles}
    THEN "yes"
    ELSE "intuition"

\* yesno_answer_for_card with the override sets looked at after the major
\* and suit rules
yesno_answer_for_card_overrides_last(card_id, card) ==
    IF Lower(OrElse(CardSuit(card), <<>>)) = STR_major \/ (0 <= card_id /\ card_id <= 21)
    THEN IF card_id \in YES_MAJOR THEN "yes"
         ELSE IF card_id \in NO_MAJOR THEN "no"
         ELSE "intuition"
    ELSE IF Lower(OrElse(CardSuit(card), <<>>)) = STR_swords THEN "no"
    ELSE IF Lower(OrElse(CardSuit(card), <<>>)) \in {STR_wands, STR_cups, STR_pentacles}
    THEN "yes"
    ELSE IF card_id \in OVERRIDE_INTUITION THEN "intuition"
    ELSE IF card_id \in OVERRIDE_NO THEN "no"
    ELSE "intuition"

\* yesno_answer_for_card without its last return: a suit that is none of
\* the five falls off the end of the function, which returns None
yesno_answer_for_card_no_fallback(card_id, card) ==
    IF card_id \in OVERRIDE_INTUITION THEN "intuition"
    ELSE IF card_id \in OVERRIDE_NO THEN "no"
    ELSE IF Lower(OrElse(CardSuit(card), <<>>)) = STR_major \/ (0 <= card_id /\ card_id <= 21)
    THEN IF card_id \in YES_MAJOR THEN "yes"
         ELSE IF card_id \in NO_MAJOR THEN "no"
         ELSE "intuition"
    ELSE IF Lower(OrElse(CardSuit(card), <<>>)) = STR_swords THEN "no"
    ELSE IF Lower(OrElse(CardSuit(card), <<>>)) \in {STR_wands, STR_cups, STR_pentacles}
    THEN "yes"
    ELSE "None"

yesno_answer_for_card(card_id, card) ==
    IF card_id \in OVERRIDE_INTUITION THEN "intuition"
    ELSE IF card_id \in OVERRIDE_NO THEN "no"
    ELSE IF Lower(OrElse(CardSuit(card), <<>>)) = STR_major \/ (0 <= card_id /\ card_id <= 21)
    THEN IF card_id \in YES_MAJOR THEN "yes"
         ELSE IF card_id \in NO_MAJOR THEN "no"
         ELSE IF card_id \in INTUITION_MAJOR THEN "intuition"
         ELSE "intuition"
    ELSE IF Lower(OrElse(CardSuit(card), <<>>)) = STR_swords THEN "no"
    ELSE IF Lower(OrElse(CardSuit(card), <<>>)) \in {STR_wands, STR_cups, STR_pentacles}
    THEN "yes"
    ELSE "intuition"

(***************************************************************************)
(* The yes/no conversation (bot.py).  An update is handled by one handler; *)
(* a handler runs without interruption up to an awaited Telegram call,     *)
(* which either returns or raises and so ends the handler.  A handler that *)
(* ends before it has changed user_data or sent anything (no callback      *)
(* query, query.answer() raising, a first reply raising) leaves every      *)
(* variable as it was: a stuttering step, which has no action here.        *)
(* `failed` is 1 when the awaited send of a step raised, 0 when it         *)
(* returned.  The callback handlers are blocking: the next update is taken *)
(* when they have returned.  on_yesno_question is registered with          *)
(* block=False: it runs up to its first await before any later handler     *)
(* changes the state, as each of those starts by awaiting query.answer(),  *)
(* and goes on as a task while later updates are handled.  Buttons are     *)
(* pressed on messages of the chat, so a callback query carries its        *)
(* message.                                                                *)
(***************************************************************************)
WAITING_QUESTION == "waiting_question"     \* YesNoStates.waiting_question
WAITING_REVEAL == "waiting_reveal"         \* YesNoStates.waiting_reveal
ABSENT == "absent"                         \* the key is not in user_data

Message(kind, question, card_id, answer_code) ==
    [kind |-> kind, question |-> question, card_id |-> card_id, answer_code |-> answer_code]
Plain(kind) == Message(kind, None, -1, "")

\* get_user_today: date.today()
get_user_today(user_id) == DayAt(today)

\* build_yesno_card_text: the caption shows the question, the card and the
\* verdict yesno_answer_for_card gives for it
build_yesno_card_text(question, card_id) ==
    Message("card_face", question, card_id,
            yesno_answer_for_card(card_id, TAROT_CARDS[card_id + 1]))

\* add_yesno_history: the history with one entry appended (the entry's
\* timestamp, the wall clock at the append, is left out)
add_yesno_history(history, user_id, question, answer_code) ==
    Append(history,
           [question |-> question, answer_code |-> answer_code, user_id |-> user_id])

\* the dict on_yesno_question stores
YesNoDraw(question, card_id, day) ==
    [yn_question |-> question, yn_card_id |-> card_id, yn_day |-> IsoFormat(day)]

\* on_yesno_start without _clear_yesno_state: the stored draw is kept
on_yesno_start_keeps_draw(failed) ==
    /\ UNCHANGED yesno_data
    /\ yesno_state' = WAITING_QUESTION
    /\ last_sent' = IF failed = 0 THEN Plain("ask_question") ELSE last_sent
    /\ UNCHANGED <<uid, today, yesno_history, tasks, observed_pick, clf, sel, area_vars>>

\* after query.answer(): _clear_yesno_state, _set_yesno_state, reply_text
on_yesno_start(failed) ==
    /\ yesno_data' = {}
    /\ yesno_state' = WAITING_QUESTION
    /\ last_sent' = IF failed = 0 THEN Plain("ask_question") ELSE last_sent
    /\ UNCHANGED <<uid, today, yesno_history, tasks, observed_pick, clf, sel, area_vars>>

\* an accepted question whose draw is stored without _set_yesno_state
AcceptQuestion_draw_only(question, card_id, day) ==
    /\ yesno_data' = {YesNoDraw(question, card_id, day)}
    /\ UNCHANGED yesno_state
    /\ observed_pick' =
           IF observed_pick = {}
           THEN {[user_id |-> uid, question |-> question, day |-> day,
                  card_id |-> card_id, again |-> FALSE]}
           ELSE {[o EXCEPT !.again = TRUE] : o \in observed_pick}
    /\ \/ /\ Len(tasks) < MaxTasks
          /\ tasks' = Append(tasks, 1)
          /\ UNCHANGED last_sent
       \/ \E failed \in 0..1 :
             /\ UNCHANGED tasks
             /\ last_sent' = IF failed = 0 THEN Plain("no_back_image") ELSE last_sent

\* lines 1048-1068 up to the first await, for an accepted question: the draw
\* is stored, then the card back image is looked for.  With the image the
\* handler goes on as a task; without it, it replies so and returns.  The
\* first call of the selector in a session is the observed one; `again`
\* tells that the selector has been called since.
AcceptQuestion(question, card_id, day) ==
    /\ yesno_data' = {YesNoDraw(question, card_id, day)}
    /\ yesno_state' = WAITING_REVEAL
    /\ observed_pick' =
           IF observed_pick = {}
           THEN {[user_id |-> uid, question |-> question, day |-> day,
                  card_id |-> card_id, again |-> FALSE]}
           ELSE {[o EXCEPT !.again = TRUE] : o \in observed_pick}
    /\ \/ /\ Len(tasks) < MaxTasks
          /\ tasks' = Append(tasks, 1)
          /\ UNCHANGED last_sent
       \/ \E failed \in 0..1 :
             /\ UNCHANGED tasks
             /\ last_sent' = IF failed = 0 THEN Plain("no_back_image") ELSE last_sent

\* lines 1038-1046: the reply that reports the problem, and return
RejectQuestion(reply) ==
    /\ last_sent' = Plain(reply)
    /\ UNCHANGED <<yesno_state, yesno_data, tasks, observed_pick>>

\* on_yesno_question refusing a question of 300 characters (>= for >)
on_yesno_question_stripped_off_by_one(question) ==
    /\ IF yesno_state # WAITING_QUESTION
       THEN UNCHANGED <<yesno_state, yesno_data, tasks, last_sent, observed_pick>>
       ELSE IF question = <<>>
       THEN RejectQuestion("write_text")
       ELSE IF Len(question) >= MaxQuestionLen
       THEN RejectQuestion("too_long")
       ELSE AcceptQuestion(question,
                           CallPick(uid, question, get_user_today(uid)),
                           get_user_today(uid))
    /\ UNCHANGED <<uid, today, yesno_history, clf, sel, area_vars>>

\* on_yesno_question without the check of the state at its first lines
on_yesno_question_stripped_any_state(question) ==
    /\ IF question = <<>>
       THEN RejectQuestion("write_text")
       ELSE IF Len(question) > MaxQuestionLen
       THEN RejectQuestion("too_long")
       ELSE AcceptQuestion(question,
                           CallPick(uid, question, get_user_today(uid)),
                           get_user_today(uid))
    /\ UNCHANGED <<uid, today, yesno_history, clf, sel, area_vars>>

\* lines 1029-1056 with question = (message.text or "").strip()
on_yesno_question_stripped(question) ==
    /\ IF yesno_state # WAITING_QUESTION
       THEN UNCHANGED <<yesno_state, yesno_data, tasks, last_sent, observed_pick>>
       ELSE IF question = <<>>
       THEN RejectQuestion("write_text")
       ELSE IF Len(question) > MaxQuestionLen
       THEN RejectQuestion("too_long")
       ELSE AcceptQuestion(question,
                           CallPick(uid, question, get_user_today(uid)),
                           get_user_today(uid))
    /\ UNCHANGED <<uid, today, yesno_history, clf, sel, area_vars>>

\* (message.text or "").strip() over Texts, computed once
StrippedTexts == [t \in Texts |-> Strip(OrElse(t, <<>>))]

\* on_yesno_question without .strip()
on_yesno_question_untrimmed(text) == on_yesno_question_stripped(OrElse(text, <<>>))

on_yesno_question(text) == on_yesno_question_stripped(StrippedTexts[text])

\* the rest of an accepted on_yesno_question, which reads no variable of
\* the handler again: a task is the number of its next awaited send, the
\* three replies of magic_loading_3_steps (1..3) and the card back with the
\* reveal button (4).  failed = 1: the send raised and the coroutine ended
yesno_question_task(i, failed) ==
    /\ i \in 1..Len(tasks)
    /\ IF failed = 1 \/ tasks[i] = 4
       THEN tasks' = SubSeq(tasks, 1, i - 1) \o SubSeq(tasks, i + 1, Len(tasks))
       ELSE tasks' = [tasks EXCEPT ![i] = @ + 1]
    /\ last_sent' =
           IF failed = 1 THEN last_sent
           ELSE IF tasks[i] = 4 THEN Plain("card_back")
           ELSE IF tasks[i] = 1 THEN Plain("loading_1")
           ELSE IF tasks[i] = 2 THEN Plain("loading_2")
           ELSE Plain("loading_3")
    /\ UNCHANGED <<uid, today, yesno_state, yesno_data, yesno_history,
                   observed_pick, clf, sel, area_vars>>

\* on_yesno_reveal ending with the state key removed and the draw kept
RevealDraw_state_only(draw, face_exists, failed) ==
    IF ~face_exists
    THEN /\ failed = 0
         /\ last_sent' = Plain("no_face_image")
         /\ UNCHANGED <<yesno_state, yesno_data, yesno_history>>
    ELSE /\ Len(yesno_history) < MaxHistory
         /\ yesno_history' =
                add_yesno_history(yesno_history, uid, draw.yn_question,
                    yesno_answer_for_card(draw.yn_card_id, TAROT_CARDS[draw.yn_card_id + 1]))
         /\ IF failed = 1
            THEN UNCHANGED <<yesno_state, yesno_data, last_sent>>
            ELSE /\ last_sent' = build_yesno_card_text(draw.yn_question, draw.yn_card_id)
                 /\ yesno_state' = ABSENT
                 /\ UNCHANGED yesno_data

\* a reveal that selects the card again, for the day of the reveal
RevealDraw_reselects(draw, face_exists, failed) ==
    IF ~face_exists
    THEN /\ failed = 0
         /\ last_sent' = Plain("no_face_image")
         /\ UNCHANGED <<yesno_state, yesno_data, yesno_history>>
    ELSE /\ Len(yesno_history) < MaxHistory
         /\ yesno_history' =
                add_yesno_history(yesno_history, uid, draw.yn_question,
                    yesno_answer_for_card(
                        CallPick(uid, draw.yn_question, get_user_today(uid)),
                        TAROT_CARDS[CallPick(uid, draw.yn_question, get_user_today(uid)) + 1]))
         /\ IF failed = 1
            THEN UNCHANGED <<yesno_state, yesno_data, last_sent>>
            ELSE /\ last_sent' = build_yesno_card_text(draw.yn_question,
                                     CallPick(uid, draw.yn_question, get_user_today(uid)))
                 /\ yesno_state' = ABSENT
                 /\ yesno_data' = {}

\* lines 1094-1112 for a stored draw.  Without the face image: the reply
\* that says so, and return.  With it: the history entry, the photo, then
\* _clear_yesno_state; failed = 1: reply_photo raised
RevealDraw(draw, face_exists, failed) ==
    IF ~face_exists
    THEN /\ failed = 0
         /\ last_sent' = Plain("no_face_image")
         /\ UNCHANGED <<yesno_state, yesno_data, yesno_history>>
    ELSE /\ Len(yesno_history) < MaxHistory
         /\ yesno_history' =
                add_yesno_history(yesno_history, uid, draw.yn_question,
                    yesno_answer_for_card(draw.yn_card_id, TAROT_CARDS[draw.yn_card_id + 1]))
         /\ IF failed = 1
            THEN UNCHANGED <<yesno_state, yesno_data, last_sent>>
            ELSE /\ last_sent' = build_yesno_card_text(draw.yn_question, draw.yn_card_id)
                 /\ yesno_state' = ABSENT
                 /\ yesno_data' = {}

\* a reveal that calls _clear_yesno_state when it finds no draw
on_yesno_reveal_clears_without_draw(face_exists, failed) ==
    /\ IF yesno_data = {}
       THEN /\ face_exists
            /\ failed = 0
            /\ last_sent' = Plain("outdated")
            /\ yesno_state' = ABSENT
            /\ UNCHANGED <<yesno_data, yesno_history>>
       ELSE RevealDraw(CHOOSE d \in yesno_data : TRUE, face_exists, failed)
    /\ UNCHANGED <<uid, today, tasks, observed_pick, clf, sel, area_vars>>

\* after query.answer().  No draw stored: the reply that the scenario is
\* outdated, and return
on_yesno_reveal(face_exists, failed) ==
    /\ IF yesno_data = {}
       THEN /\ face_exists
            /\ failed = 0
            /\ last_sent' = Plain("outdated")
            /\ UNCHANGED <<yesno_state, yesno_data, yesno_history>>
       ELSE RevealDraw(CHOOSE d \in yesno_data : TRUE, face_exists, failed)
    /\ UNCHANGED <<uid, today, tasks, observed_pick, clf, sel, area_vars>>

\* cancel and back removing the state key and keeping the draw
ClearAndReply_state_only(reply, failed) ==
    /\ yesno_state' = ABSENT
    /\ UNCHANGED yesno_data
    /\ last_sent' = IF failed = 0 THEN Plain(reply) ELSE last_sent
    /\ UNCHANGED <<uid, today, yesno_history, tasks, observed_pick, clf, sel, area_vars>>

\* on_yesno_cancel and on_yesno_back after query.answer():
\* _clear_yesno_state, then reply_text
ClearAndReply(reply, failed) ==
    /\ yesno_state' = ABSENT
    /\ yesno_data' = {}
    /\ last_sent' = IF failed = 0 THEN Plain(reply) ELSE last_sent
    /\ UNCHANGED <<uid, today, yesno_history, tasks, observed_pick, clf, sel, area_vars>>

on_yesno_cancel(failed) == ClearAndReply("cancelled", failed)

on_yesno_back(failed) == ClearAndReply("back_to_tarot", failed)

\* midnight passes
NextDay ==
    /\ today < MaxDay
    /\ today' = today + 1
    /\ UNCHANGED <<uid, yesno_state, yesno_data, yesno_history, tasks,
                   last_sent, observed_pick, clf, sel, area_vars>>

InitFlow ==
    /\ uid \in SessionUsers
    /\ today = 0
    /\ yesno_state = ABSENT
    /\ yesno_data = {}
    /\ yesno_history = <<>>
    /\ tasks = <<>>
    /\ last_sent = Plain("none")
    /\ observed_pick = {}
    /\ personal_area_awaiting = {}
    /\ personal_area_profile = {}
    /\ personal_area_message = {}

Init ==
    /\ InitFlow
    /\ clf = {}
    /\ sel = {}

Next ==
    \/ \E failed \in 0..1 : on_yesno_start(failed)
    \/ \E text \in Texts : on_yesno_question(text)
    \/ \E i \in 1..MaxTasks, failed \in 0..1 : yesno_question_task(i, failed)
    \/ \E face_exists \in BOOLEAN, failed \in 0..1 : on_yesno_reveal(face_exists, failed)
    \/ \E failed \in 0..1 : on_yesno_cancel(failed)
    \/ \E failed \in 0..1 : on_yesno_back(failed)
    \/ NextDay

Spec == Init /\ [][Next]_vars

(***************************************************************************)
(* Properties of the conversation, checked under Spec.                     *)
(***************************************************************************)
\* the text of a message after (message.text or "").strip()
Trimmed(text) == StrippedTexts[text]

C5_StoredCardInTable ==
    /\ \A call \in DOMAIN PickedCards : 0 <= PickedCards[call] /\ PickedCards[call] < 78
    /\ \A o \in observed_pick : 0 <= o.card_id /\ o.card_id < 78
    /\ \A d \in yesno_data :
           /\ 0 <= d.yn_card_id /\ d.yn_card_id < 78
           /\ Len(TAROT_CARDS) = 78
           /\ d.yn_card_id + 1 \in DOMAIN TAROT_CARDS
           /\ TAROT_CARDS[d.yn_card_id + 1].id = d.yn_card_id

\* a reveal has looked the stored card up and sent its face
C5_Witness ==
    /\ last_sent.kind = "card_face"
    /\ last_sent.card_id \in 0..77
    /\ yesno_history # <<>>

\* C7: in waiting_question, a text message whose trimmed text is non-empty
\* and at most 300 characters long sets, in one step, the state to
\* waiting_reveal and the stored draw to the trimmed question with the card
\* pick_yesno_card_id gives for the sender, that question and today.
C7_AcceptedQuestionStored ==
    [][\A text \in Texts :
          ( /\ yesno_state = WAITING_QUESTION
            /\ Trimmed(text) # <<>>
            /\ Len(Trimmed(text)) <= 300
            /\ on_yesno_question(text) )
          => /\ yesno_state' = WAITING_REVEAL
             /\ yesno_data' =
                    {YesNoDraw(Trimmed(text),
                               PickedCards[<<uid, Trimmed(text), DayAt(today)>>],
                               DayAt(today))}]_vars

\* the padded question has been accepted: its trimmed text is stored
C7_Witness ==
    /\ yesno_state = WAITING_REVEAL
    /\ \E d \in yesno_data :
           /\ d.yn_question = Trimmed(TXT_long_padded)
           /\ d.yn_question # TXT_long_padded

\* C8: in waiting_question, a message whose trimmed text is empty or
\* longer than 300 characters leaves the state waiting_question and no draw
\* stored, and the reply that reports the problem is sent; a trimmed text
\* of exactly 300 characters is accepted.
C8_RejectedQuestion ==
    [][\A text \in Texts :
          (yesno_state = WAITING_QUESTION /\ on_yesno_question(text))
          => /\ Trimmed(text) = <<>>
                  => /\ yesno_state' = WAITING_QUESTION
                     /\ yesno_data' = {}
                     /\ last_sent' = Plain("write_text")
             /\ Len(Trimmed(text)) > 300
                  => /\ yesno_state' = WAITING_QUESTION
                     /\ yesno_data' = {}
                     /\ last_sent' = Plain("too_long")
             /\ Len(Trimmed(text)) = 300
                  => /\ yesno_state' = WAITING_REVEAL
                     /\ yesno_data' # {}]_vars

\* an over-long question has been refused
C8_Witness ==
    /\ yesno_state = WAITING_QUESTION
    /\ yesno_data = {}
    /\ last_sent = Plain("too_long")

\* C9 as stated: in waiting_reveal, a reveal request sends the verdict and
\* explanation for the stored card and leaves the flow idle with the draw
\* cleared.
C9_RevealAlwaysCompletes ==
    [][\A face_exists \in BOOLEAN, failed \in 0..1 :
          (yesno_state = WAITING_REVEAL /\ on_yesno_reveal(face_exists, failed))
          => /\ \E d \in yesno_data : last_sent' = build_yesno_card_text(d.yn_question, d.yn_card_id)
             /\ yesno_state' = ABSENT
             /\ yesno_data' = {}]_vars

\* C9 amended: in waiting_reveal, a reveal request whose card face image
\* exists and whose photo is sent sends the verdict and explanation for the
\* stored card and leaves the flow idle with the draw cleared; when the
\* face image is missing or the photo cannot be sent, the state stays
\* waiting_reveal and the draw stays stored.
C9_RevealCompletesOrKeepsDraw ==
    [][\A face_exists \in BOOLEAN, failed \in 0..1 :
          (yesno_state = WAITING_REVEAL /\ on_yesno_reveal(face_exists, failed))
          => IF face_exists /\ failed = 0
             THEN /\ \E d \in yesno_data : last_sent' = build_yesno_card_text(d.yn_question, d.yn_card_id)
                  /\ yesno_state' = ABSENT
                  /\ yesno_data' = {}
             ELSE /\ yesno_state' = WAITING_REVEAL
                  /\ yesno_data' = yesno_data
                  /\ yesno_data' # {}]_vars

\* a reveal has sent the card face and cleared the draw
C9_Witness ==
    /\ last_sent.kind = "card_face"
    /\ last_sent.answer_code \in {"yes", "no", "intuition"}
    /\ yesno_state = ABSENT
    /\ yesno_data = {}

\* C10: a cancel request or a back request, in any state of the flow,
\* leaves the flow idle with no stored question or card, and leaves the
\* history as it was.
C10_CancelAndBackClear ==
    [][(\E failed \in 0..1 : on_yesno_cancel(failed) \/ on_yesno_back(failed))
          => /\ yesno_state' = ABSENT
             /\ yesno_data' = {}
             /\ yesno_history' = yesno_history]_vars

\* a cancel has been answered while the coroutine of the accepted question
\* is still in flight, and after a reveal: it was received in waiting_reveal
C10_Witness ==
    /\ last_sent = Plain("cancelled")
    /\ yesno_state = ABSENT
    /\ yesno_data = {}
    /\ tasks # <<>>
    /\ yesno_history # <<>>

\* C11: a request for a new draw puts the flow in waiting_question with no
\* stored draw, from idle, from waiting_question and from waiting_reveal,
\* where the draw waiting to be revealed is discarded.
C11_NewDrawFromAnyState ==
    [][(\E failed \in 0..1 : on_yesno_start(failed))
          => /\ yesno_state' = WAITING_QUESTION
             /\ yesno_data' = {}]_vars

\* a new draw has been requested while the coroutine of an accepted
\* question was still in flight: the draw it had stored is gone
C11_Witness ==
    /\ last_sent = Plain("ask_question")
    /\ yesno_state = WAITING_QUESTION
    /\ yesno_data = {}
    /\ tasks # <<>>
    /\ observed_pick # {}

\* the questions a handler can store, normalised as the selector does
NormalizedQuestions ==
    [q \in {c[2] : c \in HandlerCalls} |-> NormalizeQuestion(q)]

\* the draw is one of the same user and day as the observed call, with a
\* question equal to its question after normalisation
SameDayEqualQuestion(o, draw) ==
    /\ o.user_id = uid
    /\ IsoFormat(o.day) = draw.yn_day
    /\ NormalizedQuestions[o.question] = NormalizedQuestions[draw.yn_question]

\* C13: two draws of one user on one calendar day, with questions equal after
\* trimming, lower-casing and whitespace collapsing, store the same card id,
\* and the reveal of the later one shows the verdict of the card of the
\* earlier one, whatever happened in between.
C13_SameDaySameDraw ==
    [][\A o \in observed_pick :
          /\ \A d \in yesno_data' :
                SameDayEqualQuestion(o, d) => d.yn_card_id = o.card_id
          /\ \A d \in yesno_data :
                (SameDayEqualQuestion(o, d) /\ on_yesno_reveal(TRUE, 0))
                    => /\ last_sent'.card_id = o.card_id
                       /\ last_sent'.answer_code =
                              yesno_answer_for_card(o.card_id, TAROT_CARDS[o.card_id + 1])
                       /\ yesno_history'[Len(yesno_history')].answer_code =
                              last_sent'.answer_code]_vars

\* two draws have been completed on the day of the observed call, with
\* questions that differ as typed, and both revealed the same card's verdict
C13_Witness ==
    /\ Len(yesno_history) = 2
    /\ yesno_history[1].question # yesno_history[2].question
    /\ yesno_history[1].answer_code = yesno_history[2].answer_code
    /\ last_sent.kind = "card_face"
    /\ last_sent.question = yesno_history[2].question
    /\ \E o \in observed_pick :
          /\ o.day = DayAt(today)
          /\ o.question = yesno_history[1].question
          /\ o.card_id = last_sent.card_id

\* C14: in every reachable state a draw (question and card id) is stored if
\* and only if the yes/no state is waiting_reveal; idle and waiting_question
\* hold no draw.
C14_DrawIffWaitingReveal ==
    /\ (yesno_data # {}) <=> (yesno_state = WAITING_REVEAL)
    /\ Cardinality(yesno_data) <= 1

\* a draw has been stored and dropped again, and the flow is back in
\* waiting_question without one
C14_Witness ==
    /\ yesno_state = WAITING_QUESTION
    /\ yesno_data = {}
    /\ observed_pick # {}
    /\ yesno_history # <<>>

\* C17: a reveal whose photo is sent appends exactly one history entry, with
\* the stored question and the verdict yesno_answer_for_card gives for the
\* card id stored at question time, whatever the day of the reveal, and the
\* caption shows that card and that verdict.
C17_RevealRecordsStoredDraw ==
    [][\A d \in yesno_data :
          on_yesno_reveal(TRUE, 0)
              => /\ yesno_history' = Append(yesno_history,
                        [question |-> d.yn_question,
                         answer_code |-> yesno_answer_for_card(d.yn_card_id,
                                             TAROT_CARDS[d.yn_card_id + 1]),
                         user_id |-> uid])
                 /\ last_sent'.kind = "card_face"
                 /\ last_sent'.question = d.yn_question
                 /\ last_sent'.card_id = d.yn_card_id
                 /\ last_sent'.answer_code =
                        yesno_history'[Len(yesno_history')].answer_code]_vars

\* on a later day than the first question's, the caption and the last
\* history entry show the card picked for that question on its day, which is
\* not the card the selector gives for it today
C17_Witness ==
    /\ last_sent.kind = "card_face"
    /\ yesno_state = ABSENT
    /\ yesno_history # <<>>
    /\ yesno_history[Len(yesno_history)].question = last_sent.question
    /\ yesno_history[Len(yesno_history)].answer_code = last_sent.answer_code
    /\ \E o \in observed_pick :
          /\ o.day # DayAt(today)
          /\ o.question = last_sent.question
          /\ o.card_id = last_sent.card_id
          /\ PickedCards[<<uid, o.question, DayAt(today)>>] # o.card_id
          /\ yesno_answer_for_card(PickedCards[<<uid, o.question, DayAt(today)>>],
                 TAROT_CARDS[PickedCards[<<uid, o.question, DayAt(today)>>] + 1])
               # last_sent.answer_code

\* the step in which the coroutine of an accepted question sends the card
\* back with the reveal button
CardBackSent ==
    \E i \in 1..Len(tasks) : tasks[i] = 4 /\ yesno_question_task(i, 0)

\* C12: from the step in which on_yesno_question stores a draw until its
\* card back is sent, no new draw, cancel, back or reveal changes the state
\* or the stored draw, and the card back is sent only while the state is
\* waiting_reveal.
C12_QuestionHandledAlone ==
    [][/\ ( /\ tasks # <<>>
            /\ \/ \E failed \in 0..1 : on_yesno_start(failed)
               \/ \E failed \in 0..1 : on_yesno_cancel(failed)
               \/ \E failed \in 0..1 : on_yesno_back(failed)
               \/ \E face_exists \in BOOLEAN, failed \in 0..1 :
                     on_yesno_reveal(face_exists, failed) )
          => UNCHANGED <<yesno_state, yesno_data>>
       /\ CardBackSent => (yesno_state = WAITING_REVEAL /\ yesno_data # {})]_vars

\* C20: every accepted question (every step to waiting_reveal) is followed
\* by the card back with the reveal button: the step that stores the draw
\* leaves the handler's coroutine on its way to that send, so that the flow
\* does not rest in waiting_reveal with no reveal button offered for the
\* draw.
C20_AcceptedQuestionGetsCardBack ==
    [][\A text \in Texts :
          (on_yesno_question(text) /\ yesno_state' = WAITING_REVEAL)
              => tasks' = Append(tasks, 1)]_vars

\* C21: the number of history entries never exceeds the number of accepted
\* questions, reveal attempts that fail part-way included: none before the
\* first accepted question, at most one while only one has been accepted.
C21_HistoryWithinAcceptedQuestions ==
    /\ observed_pick = {} => yesno_history = <<>>
    /\ \A o \in observed_pick : ~o.again => Len(yesno_history) <= 1

\* C22: a text message received while the state is not waiting_question
\* leaves the state, the stored draw and the history unchanged; a draw
\* waiting to be revealed is not replaced by a later text message.
C22_TextOutsideQuestionIgnored ==
    [][\A text \in Texts :
          (yesno_state # WAITING_QUESTION /\ on_yesno_question(text))
              => UNCHANGED <<yesno_state, yesno_data, yesno_history>>]_vars

\* a draw waits to be revealed, its card back has been sent and no
\* coroutine is in flight: the state a text message arrives in and, as the
\* handler returns at its first lines, the state it leaves
C22_Witness ==
    /\ yesno_state = WAITING_REVEAL
    /\ \E d \in yesno_data : Len(d.yn_question) = MaxQuestionLen
    /\ last_sent = Plain("card_back")
    /\ tasks = <<>>
    /\ \A text \in Texts : ENABLED on_yesno_question(text)

\* C23: a reveal request received when no draw is stored tells the user
\* that the scenario is outdated and leaves the state, the (absent) draw and
\* the history unchanged: no verdict is sent and no history entry is added.
C23_RevealWithoutDraw ==
    [][\A face_exists \in BOOLEAN, failed \in 0..1 :
          (yesno_data = {} /\ on_yesno_reveal(face_exists, failed))
              => /\ last_sent' = Plain("outdated")
                 /\ yesno_state \in {ABSENT, WAITING_QUESTION}
                 /\ UNCHANGED <<yesno_state, yesno_data, yesno_history>>]_vars

\* the reveal button of an earlier draw has been pressed while the flow
\* waited for the question of the next one
C23_Witness ==
    /\ last_sent = Plain("outdated")
    /\ yesno_state = WAITING_QUESTION
    /\ yesno_data = {}
    /\ Len(yesno_history) = 1

(***************************************************************************)
(* The personal area of bot.py: the profile panel and the edits of name    *)
(* and age, in the application build_application registers.                *)
(***************************************************************************)
FIELD_name == "name"
FIELD_age == "age"

\* the dict _ensure_profile creates; gender, the token counters and the
\* referral code are display values no handler of the model changes
DefaultProfile == [name |-> None, age |-> None]

\* the chat and message ids kept of the panel message
PanelMessage == "panel"

\* _ensure_profile: user_data.setdefault(PROFILE_KEY, {...})
ensure_profile(profile) == IF profile = {} THEN {DefaultProfile} ELSE profile

\* show_personal_area, for /cab and for the button: _personal_area_text
\* creates the profile, the panel is edited in place or sent, and its ids
\* are remembered; failed = 1: the send raised
show_personal_area(failed) ==
    /\ personal_area_profile' = ensure_profile(personal_area_profile)
    /\ personal_area_message' = IF failed = 0 THEN {PanelMessage} ELSE personal_area_message
    /\ last_sent' = IF failed = 0 THEN Plain("personal_area") ELSE last_sent
    /\ UNCHANGED <<uid, today, yesno_state, yesno_data, yesno_history, tasks,
                   observed_pick, clf, sel, personal_area_awaiting>>

\* personal_area_back: the panel message is deleted (a TelegramError is
\* logged) and its reference dropped
personal_area_back ==
    /\ personal_area_message' = {}
    /\ UNCHANGED <<flow_vars, clf, sel, personal_area_awaiting, personal_area_profile>>

\* _prompt_for_input: after query.answer() the marker is set, then the
\* prompt is sent; failed = 1: reply_text raised
prompt_for_input(field, prompt_text, failed) ==
    /\ personal_area_awaiting' = {field}
    /\ last_sent' = IF failed = 0 THEN Plain(prompt_text) ELSE last_sent
    /\ UNCHANGED <<uid, today, yesno_state, yesno_data, yesno_history, tasks,
                   observed_pick, clf, sel, personal_area_profile, personal_area_message>>

personal_area_edit_name(failed) == prompt_for_input(FIELD_name, "ask_name", failed)

personal_area_edit_age(failed) == prompt_for_input(FIELD_age, "ask_age", failed)

\* a text message that is not a command.  The two MessageHandlers of
\* build_application have the same filter and are in the same group, so the
\* application calls the first one that matches, on_yesno_question, and
\* stops: personal_area_text_input is never called
text_message(text) == on_yesno_question(text)

\* the application with the personal area, the new draw and the text
\* messages
NextArea ==
    \/ \E failed \in 0..1 : show_personal_area(failed)
    \/ personal_area_back
    \/ \E failed \in 0..1 : personal_area_edit_name(failed)
    \/ \E failed \in 0..1 : personal_area_edit_age(failed)
    \/ \E text \in Texts : text_message(text)
    \/ \E failed \in 0..1 : on_yesno_start(failed)
    \/ \E i \in 1..MaxTasks, failed \in 0..1 : yesno_question_task(i, failed)

SpecArea == Init /\ [][NextArea]_vars

\* "".join(filter(str.isdigit, text)), for ASCII digits
OnlyDigits(text) == SelectSeq(text, LAMBDA c : c \in 48..57)

\* the value an edit of the field gives the profile for the text
FieldValue(field, text) ==
    IF field = FIELD_name THEN Strip(text) ELSE OnlyDigits(Strip(text))

\* C18: with the awaiting-input marker set by personal_area_edit_name or
\* personal_area_edit_age, a text message that is not a command updates the
\* named profile field and clears the marker.
C18_TextUpdatesField ==
    [][\A text \in Texts : \A field \in personal_area_awaiting :
          text_message(text)
              => /\ personal_area_awaiting' = {}
                 /\ \E profile \in personal_area_profile' :
                       profile[field] = FieldValue(field, text)]_vars

(***************************************************************************)
(* The personal area of personal_area.py, in an application that has the   *)
(* handlers of register_personal_area.  The session keys are those of      *)
(* bot.py; the marker holds the field's name.                              *)
(***************************************************************************)
TXT_Ann_padded == <<32, 65, 110, 110, 32>>              \* " Ann "
TXT_25 == <<50, 53>>                                    \* "25"
TXT_a1_b2 == <<97, 49, 32, 98, 50>>                     \* "a1 b2"
AreaTexts == {TXT_Ann_padded, TXT_25, TXT_a1_b2, TXT_blank}

\* _show_personal_area: _personal_area_payload creates the profile, the
\* panel is sent (new_message) or edited in place, and its ids are
\* remembered; failed = 1: the send raised
pa_show_personal_area(new_message, failed) ==
    /\ personal_area_profile' = ensure_profile(personal_area_profile)
    /\ personal_area_message' = IF failed = 0 THEN {PanelMessage} ELSE personal_area_message
    /\ last_sent' = IF failed = 1 THEN last_sent
                    ELSE IF new_message THEN Plain("personal_area")
                    ELSE Plain("personal_area_edited")
    /\ UNCHANGED <<uid, today, yesno_state, yesno_data, yesno_history, tasks,
                   observed_pick, clf, sel, personal_area_awaiting>>

\* /cab
personal_area_command(failed) == pa_show_personal_area(TRUE, failed)

\* the button that opens the panel
personal_area_callback(failed) == pa_show_personal_area(FALSE, failed)

\* personal_area_back and personal_area_close: the reference to the panel
\* message is dropped, then the message is edited to the text given
DropPanel(text_kind, failed) ==
    /\ personal_area_message' = {}
    /\ last_sent' = IF failed = 0 THEN Plain(text_kind) ELSE last_sent
    /\ UNCHANGED <<uid, today, yesno_state, yesno_data, yesno_history, tasks,
                   observed_pick, clf, sel, personal_area_awaiting, personal_area_profile>>

pa_personal_area_back(failed) == DropPanel("support", failed)

personal_area_close(failed) == DropPanel("panel_closed", failed)

\* _ask_for_value: the marker is set first, then query.answer() and the
\* prompt, which ends "Чтобы отменить, отправьте /cab."
ask_for_value(field, prompt, failed) ==
    /\ personal_area_awaiting' = {field}
    /\ last_sent' = IF failed = 0 THEN Plain(prompt) ELSE last_sent
    /\ UNCHANGED <<uid, today, yesno_state, yesno_data, yesno_history, tasks,
                   observed_pick, clf, sel, personal_area_profile, personal_area_message>>

pa_personal_area_edit_name(failed) == ask_for_value(FIELD_name, "ask_name_or_cab", failed)

pa_personal_area_edit_age(failed) == ask_for_value(FIELD_age, "ask_age_or_cab", failed)

\* the profile with the text put in the field: name takes text.strip(), age
\* the digits of the text, or text.strip() when it has none
HandledInput(profile, field, text) ==
    IF field = FIELD_name THEN [profile EXCEPT !.name = Strip(text)]
    ELSE IF field = FIELD_age
    THEN [profile EXCEPT !.age = IF OnlyDigits(text) # <<>> THEN OnlyDigits(text)
                                 ELSE Strip(text)]
    ELSE profile

\* personal_area_handle_input with the marker set (without it the handler
\* returns at once): the profile is created if need be, the field is set,
\* the marker dropped, then the confirmation is sent and the panel
\* refreshed; failed = 1: reply_text raised
personal_area_handle_input(text, failed) ==
    /\ personal_area_awaiting # {}
    /\ personal_area_profile' =
           {HandledInput(profile, CHOOSE field \in personal_area_awaiting : TRUE, text) :
               profile \in ensure_profile(personal_area_profile)}
    /\ personal_area_awaiting' = {}
    /\ last_sent' = IF failed = 0 THEN Plain("data_updated") ELSE last_sent
    /\ UNCHANGED <<uid, today, yesno_state, yesno_data, yesno_history, tasks,
                   observed_pick, clf, sel, personal_area_message>>

NextCab ==
    \/ \E failed \in 0..1 : personal_area_command(failed)
    \/ \E failed \in 0..1 : personal_area_callback(failed)
    \/ \E failed \in 0..1 : pa_personal_area_back(failed)
    \/ \E failed \in 0..1 : personal_area_close(failed)
    \/ \E failed \in 0..1 : pa_personal_area_edit_name(failed)
    \/ \E failed \in 0..1 : pa_personal_area_edit_age(failed)
    \/ \E text \in AreaTexts, failed \in 0..1 : personal_area_handle_input(text, failed)

SpecCab == Init /\ [][NextCab]_vars

\* C19: /cab sent while a name or age edit is pending cancels the edit:
\* after personal_area_command the awaiting-input marker is absent, so that
\* a later text message does not change the profile's name or age.
C19_CabCancelsEdit ==
    [][(personal_area_awaiting # {} /\ \E failed \in 0..1 : personal_area_command(failed))
          => personal_area_awaiting' = {}]_vars

(***************************************************************************)
(* personal_area_text_input of bot.py called on its own, as the handler of *)
(* a text message, with the handlers that set the marker.                  *)
(***************************************************************************)
\* a handler that takes text.strip() for the age when the text has no digit
personal_area_text_input_digits_or_text(text, failed) ==
    /\ personal_area_awaiting # {}
    /\ personal_area_profile' =
           {HandledInput(profile, CHOOSE f \in personal_area_awaiting : TRUE, Strip(text)) :
               profile \in ensure_profile(personal_area_profile)}
    /\ personal_area_awaiting' = IF failed = 0 THEN {} ELSE personal_area_awaiting
    /\ last_sent' = IF failed = 1 THEN last_sent
                    ELSE IF personal_area_message # {} THEN Plain("personal_area_refreshed")
                    ELSE Plain("field_updated")
    /\ UNCHANGED <<uid, today, yesno_state, yesno_data, yesno_history, tasks,
                   observed_pick, clf, sel, personal_area_message>>

\* personal_area_text_input with the marker set (without it the handler
\* returns at once).  The profile is created if need be.  An age without a
\* digit: the request for a number, and return.  Otherwise the field is
\* set, the confirmation sent, the marker dropped and the remembered panel
\* refreshed; failed = 1: reply_text raised, before the marker was dropped
personal_area_text_input(text, failed) ==
    /\ personal_area_awaiting # {}
    /\ LET field == CHOOSE f \in personal_area_awaiting : TRUE
       IN  IF field = FIELD_age /\ FieldValue(field, text) = <<>>
           THEN /\ personal_area_profile' = ensure_profile(personal_area_profile)
                /\ UNCHANGED personal_area_awaiting
                /\ last_sent' = IF failed = 0 THEN Plain("ask_number") ELSE last_sent
           ELSE /\ personal_area_profile' =
                       {[profile EXCEPT ![field] = FieldValue(field, text)] :
                           profile \in ensure_profile(personal_area_profile)}
                /\ personal_area_awaiting' = IF failed = 0 THEN {} ELSE personal_area_awaiting
                /\ last_sent' = IF failed = 1 THEN last_sent
                                ELSE IF personal_area_message # {}
                                THEN Plain("personal_area_refreshed")
                                ELSE Plain("field_updated")
    /\ UNCHANGED <<uid, today, yesno_state, yesno_data, yesno_history, tasks,
                   observed_pick, clf, sel, personal_area_message>>

NextTextInput ==
    \/ \E failed \in 0..1 : show_personal_area(failed)
    \/ personal_area_back
    \/ \E failed \in 0..1 : personal_area_edit_name(failed)
    \/ \E failed \in 0..1 : personal_area_edit_age(failed)
    \/ \E text \in AreaTexts, failed \in 0..1 : personal_area_text_input(text, failed)

SpecTextInput == Init /\ [][NextTextInput]_vars

\* the age is a non-empty string of digits
IsAge(age) == age # <<>> /\ \A i \in 1..Len(age) : age[i] \in 48..57

\* C24: with an age edit pending, a text without a digit leaves the
\* profile's fields as they are, keeps the awaiting-input marker set and
\* asks the user for a number; the stored age is always unset or a
\* non-empty string of digits.
C24_AgeNeedsDigits ==
    /\ [][\A text \in AreaTexts, failed \in 0..1 :
             ( /\ personal_area_awaiting = {FIELD_age}
               /\ OnlyDigits(text) = <<>>
               /\ personal_area_text_input(text, failed) )
                 => /\ ensure_profile(personal_area_profile')
                          = ensure_profile(personal_area_profile)
                    /\ personal_area_awaiting' = {FIELD_age}
                    /\ failed = 0 => last_sent' = Plain("ask_number")]_vars
    /\ [](\A profile \in personal_area_profile :
             profile.age = None \/ IsAge(profile.age))

\* an age has been stored from a text with digits, and a later text without
\* one has been answered with the request for a number, the edit pending
C24_Witness ==
    /\ personal_area_awaiting = {FIELD_age}
    /\ last_sent = Plain("ask_number")
    /\ \E profile \in personal_area_profile :
          /\ profile.age = <<49, 50>>
          /\ profile.name = <<65, 110, 110>>

(***************************************************************************)
(* The classifier called on its own: yesno_answer_for_card(card_id, card)  *)
(* for the cards of the table, as on_yesno_reveal calls it, and for a dict *)
(* with any suit value.  clf holds the latest call.                        *)
(***************************************************************************)
STR_SWORDS_upper == <<83, 87, 79, 82, 68, 83>>     \* "SWORDS"
STR_Major_capital == <<77, 97, 106, 111, 114>>     \* "Major"
STR_Cups_capital == <<67, 117, 112, 115>>          \* "Cups"
STR_stars == <<115, 116, 97, 114, 115>>            \* "stars", no suit of the table

SuitValues ==
    {STR_major, STR_wands, STR_cups, STR_swords, STR_pentacles,
     STR_SWORDS_upper, STR_Major_capital, STR_Cups_capital, STR_stars, <<>>, None}

CardIds == 0..(NumCards - 1)

\* the dicts passed as card: with a suit value, and without the key
CardDicts(card_id) == {[id |-> card_id, suit |-> sv] : sv \in SuitValues} \cup {[id |-> card_id]}

ClassifyCall(card_id, card) ==
    [card_id |-> card_id, card |-> card, answer |-> yesno_answer_for_card(card_id, card)]

\* card = TAROT_CARDS[card_id_int]; yesno_answer_for_card(card_id_int, card)
ClassifyTableCard(card_id) ==
    /\ clf' = {ClassifyCall(card_id, TAROT_CARDS[card_id + 1])}
    /\ UNCHANGED <<flow_vars, sel, area_vars>>

ClassifyCard(card_id, card) ==
    /\ clf' = {ClassifyCall(card_id, card)}
    /\ UNCHANGED <<flow_vars, sel, area_vars>>

NextClassify ==
    \/ \E card_id \in CardIds : ClassifyTableCard(card_id)
    \/ \E card_id \in CardIds : \E card \in CardDicts(card_id) : ClassifyCard(card_id, card)

SpecClassify == Init /\ [][NextClassify]_vars

\* the suit value of a call as the classifier compares it
ComparedSuit(call) == Lower(OrElse(CardSuit(call.card), <<>>))

\* the five steps of the classifier's first-match order for a card id and
\* a suit value
FirstMatchOrder(card_id, suit) ==
    IF card_id \in OVERRIDE_INTUITION THEN "intuition"
    ELSE IF card_id \in OVERRIDE_NO THEN "no"
    ELSE IF suit = STR_major \/ card_id \in 0..21
    THEN IF card_id \in YES_MAJOR THEN "yes"
         ELSE IF card_id \in NO_MAJOR THEN "no"
         ELSE IF card_id \in INTUITION_MAJOR THEN "intuition"
         ELSE "intuition"
    ELSE IF suit = STR_swords THEN "no"
    ELSE IF suit \in {STR_wands, STR_cups, STR_pentacles} THEN "yes"
    ELSE "intuition"

C2_FirstMatchOnGivenSuit ==
    \A call \in clf :
        /\ call.answer = FirstMatchOrder(call.card_id, CardSuit(call.card))
        /\ (call.card_id = 1 /\ CardSuit(call.card) = STR_major) => call.answer = "yes"
        /\ (call.card_id = 30 /\ CardSuit(call.card) = STR_swords) => call.answer = "no"

\* C2 amended: for every card id in 0..77 and every suit value the
\* classifier returns what the first-match order gives for that id and the
\* suit value lower-cased, a missing or empty suit being the empty string;
\* classify(1, "major") = yes and classify(30, "swords") = no.
C2_FirstMatchOnLowerCasedSuit ==
    \A call \in clf :
        /\ call.answer = FirstMatchOrder(call.card_id, ComparedSuit(call))
        /\ (call.card_id = 1 /\ CardSuit(call.card) = STR_major) => call.answer = "yes"
        /\ (call.card_id = 30 /\ CardSuit(call.card) = STR_swords) => call.answer = "no"

\* card 30 classified with the suit "SWORDS": the suit rule has applied
C2_Witness ==
    \E call \in clf :
        /\ call.card_id = 30
        /\ CardSuit(call.card) = STR_SWORDS_upper
        /\ call.answer = "no"

\* C3: for a card id of the intuition override set the classifier returns
\* intuition whatever the suit value (id 12, of the major no set, gives
\* intuition), and for a card id of the no override set it returns no
\* whatever the suit value (id 58 gives no).
C3_OverridePrecedence ==
    \A call \in clf :
        /\ call.card_id \in OVERRIDE_INTUITION => call.answer = "intuition"
        /\ call.card_id \in OVERRIDE_NO => call.answer = "no"
        /\ call.card_id = 12 => call.answer = "intuition"
        /\ call.card_id = 58 => call.answer = "no"

\* card 58 classified as a card of cups, a suit whose rule says yes
C3_Witness ==
    \E call \in clf :
        /\ call.card_id = 58
        /\ CardSuit(call.card) = STR_cups
        /\ call.answer = "no"

\* C6: for every card id in 0..77 and every suit value, an unknown, empty
\* or missing one included, the classifier returns one of yes, no and
\* intuition; for an id outside 0..21 and outside the override sets, with a
\* suit that is none of the five suit names in any letter case, it returns
\* intuition.
C6_Total ==
    \A call \in clf :
        /\ call.answer \in {"yes", "no", "intuition"}
        /\ ( /\ call.card_id \notin (OVERRIDE_INTUITION \cup OVERRIDE_NO)
             /\ call.card_id \notin 0..21
             /\ ComparedSuit(call) \notin
                    {STR_major, STR_wands, STR_cups, STR_swords, STR_pentacles} )
           => call.answer = "intuition"

\* card 30 classified from a dict without the suit key
C6_Witness ==
    \E call \in clf :
        /\ call.card_id = 30
        /\ "suit" \notin DOMAIN call.card
        /\ call.answer = "intuition"

(***************************************************************************)
(* The selector called on its own, for a question and for the same         *)
(* question after cosmetic edits: a letter's case, whitespace added before *)
(* or after, a whitespace run made longer or shorter.  sel holds the pair of *)
(* calls compared.                                                         *)
(***************************************************************************)
TXT_da_li == <<1044, 1072, 32, 1083, 1080>>                 \* "Да ли"
TXT_Hello_World_padded ==                                   \* " Hello   World "
    <<32, 72, 101, 108, 108, 111, 32, 32, 32, 87, 111, 114, 108, 100, 32>>
TXT_hello_world ==                                          \* "hello world"
    <<104, 101, 108, 108, 111, 32, 119, 111, 114, 108, 100>>

TXT_Will_I_succeed_today ==                                 \* "Will I succeed today?"
    <<87, 105, 108, 108, 32, 73, 32, 115, 117, 99, 99, 101, 101, 100, 32,
      116, 111, 100, 97, 121, 63>>
TXT_will_i_succeed_today ==                                 \* "will i succeed today?"
    <<119, 105, 108, 108, 32, 105, 32, 115, 117, 99, 99, 101, 101, 100, 32,
      116, 111, 100, 97, 121, 63>>

BaseQuestions == {TXT_da_li}

\* pairs compared as they are: the two spellings of one question, and an
\* absent question with the empty one
QuestionPairs ==
    {<<TXT_Hello_World_padded, TXT_hello_world>>, <<None, <<>>>>,
     <<TXT_Will_I_succeed_today, TXT_will_i_succeed_today>>}

\* the other case of a letter (ASCII and Russian letters)
SwapCase(c) ==
    IF LowerChar(c) # c THEN LowerChar(c)
    ELSE IF c \in 97..122 \/ c \in 1072..1103 THEN c - 32
    ELSE c

PickPairOfCalls(user_id, day, question, other, edits) ==
    [user_id |-> user_id, day |-> day,
     question |-> question,
     card |-> pick_yesno_card_id(user_id, question, DayAt(day)),
     other |-> other,
     other_card |-> pick_yesno_card_id(user_id, other, DayAt(day)),
     edits |-> edits]

\* the pair with its second question replaced, and the selector called on it
Edited(pair, other) ==
    [pair EXCEPT !.other = other,
                 !.other_card = pick_yesno_card_id(pair.user_id, other, DayAt(pair.day)),
                 !.edits = @ + 1]

PickQuestion(user_id, day, question) ==
    /\ sel = {}
    /\ sel' = {PickPairOfCalls(user_id, day, question, question, 0)}
    /\ UNCHANGED <<flow_vars, clf, area_vars>>

PickPair(user_id, day, pair) ==
    /\ sel = {}
    /\ sel' = {PickPairOfCalls(user_id, day, pair[1], pair[2], MaxEdits)}
    /\ UNCHANGED <<flow_vars, clf, area_vars>>

\* the letter at i in its other case
EditCase(i) ==
    /\ \E pair \in sel :
          /\ pair.edits < MaxEdits
          /\ i \in 1..Len(pair.other)
          /\ SwapCase(pair.other[i]) # pair.other[i]
          /\ sel' = {Edited(pair, [pair.other EXCEPT ![i] = SwapCase(@)])}
    /\ UNCHANGED <<flow_vars, clf, area_vars>>

\* a space before, or a newline after
EditPad(at_end) ==
    /\ \E pair \in sel :
          /\ pair.edits < MaxEdits
          /\ sel' = {Edited(pair, IF at_end THEN Append(pair.other, 10)
                                  ELSE <<32>> \o pair.other)}
    /\ UNCHANGED <<flow_vars, clf, area_vars>>

\* a tab after the whitespace at i
EditLengthenRun(i) ==
    /\ \E pair \in sel :
          /\ pair.edits < MaxEdits
          /\ i \in 1..Len(pair.other)
          /\ IsSpace(pair.other[i])
          /\ sel' = {Edited(pair, SubSeq(pair.other, 1, i) \o <<9>>
                                  \o SubSeq(pair.other, i + 1, Len(pair.other)))}
    /\ UNCHANGED <<flow_vars, clf, area_vars>>

\* without the whitespace at i, which is at an end or next to whitespace
EditShortenRun(i) ==
    /\ \E pair \in sel :
          /\ pair.edits < MaxEdits
          /\ i \in 1..Len(pair.other)
          /\ IsSpace(pair.other[i])
          /\ IF i = 1 \/ i = Len(pair.other) THEN TRUE
             ELSE IsSpace(pair.other[i - 1]) \/ IsSpace(pair.other[i + 1])
          /\ sel' = {Edited(pair, SubSeq(pair.other, 1, i - 1)
                                  \o SubSeq(pair.other, i + 1, Len(pair.other)))}
    /\ UNCHANGED <<flow_vars, clf, area_vars>>

MaxEditedLen == Len(TXT_da_li) + MaxEdits

NextPick ==
    \/ \E user_id \in UserIds, day \in 0..MaxDay, question \in BaseQuestions :
          PickQuestion(user_id, day, question)
    \/ \E user_id \in UserIds, day \in 0..MaxDay, pair \in QuestionPairs :
          PickPair(user_id, day, pair)
    \/ \E i \in 1..MaxEditedLen : EditCase(i)
    \/ \E at_end \in BOOLEAN : EditPad(at_end)
    \/ \E i \in 1..MaxEditedLen : EditLengthenRun(i)
    \/ \E i \in 1..MaxEditedLen : EditShortenRun(i)

SpecPick == Init /\ [][NextPick]_vars

\* "yesno:42:2024-01-01:will i succeed today?" in UTF-8
KEY_scenario ==
    <<121, 101, 115, 110, 111, 58, 52, 50, 58, 50, 48, 50, 52, 45, 48, 49, 45,
      48, 49, 58>> \o TXT_will_i_succeed_today

\* the card ids the program returns for the first questions of the pairs,
\* by user and day (2023-12-31, 2024-01-01, 2024-01-02)
ReferenceCards(question, user_id) ==
    IF question = TXT_Will_I_succeed_today
    THEN (IF user_id = 42 THEN <<29, 37, 60>> ELSE <<45, 65, 60>>)
    ELSE IF question = TXT_da_li
    THEN (IF user_id = 42 THEN <<65, 56, 9>> ELSE <<27, 50, 37>>)
    ELSE IF question = TXT_Hello_World_padded
    THEN (IF user_id = 42 THEN <<47, 54, 30>> ELSE <<39, 76, 54>>)
    ELSE (IF user_id = 42 THEN <<56, 54, 59>> ELSE <<24, 34, 30>>)

\* the UTF-8 bytes of "yesno:<user>:<ISO day>:<normalized question>", the
\* ISO day and the normalised question spelled out
KeyBytes(user_id, day, question) ==
    Utf8Encode(STR_yesno \o COLON \o IntToStr(user_id) \o COLON
        \o ZeroPad(DayAt(day).year, 4) \o <<45>>
        \o ZeroPad(DayAt(day).month, 2) \o <<45>>
        \o ZeroPad(DayAt(day).day, 2) \o COLON
        \o Join(<<32>>, Split(Lower(Strip(OrElse(question, <<>>))))))

\* bytes b1..b4 read as a big-endian unsigned integer, modulo 78
\* (2^24, 2^16 and 2^8 are 40, 16 and 22 modulo 78)
BigEndianMod78(b) == (40 * b[1] + 16 * b[2] + 22 * b[3] + b[4]) % 78

\* C16: pick_yesno_card_id(u, q, d) is the first 4 bytes of SHA-256 over the
\* UTF-8 bytes of "yesno:<u>:<ISO day>:<normalized q>", read as an unsigned
\* big-endian integer, modulo 78; for user 42, "Will I succeed today?" and
\* 2024-01-01 the key is "yesno:42:2024-01-01:will i succeed today?".
C16_CardFromDigest ==
    \A pair \in sel :
        /\ pair.card = BigEndianMod78(
               Sha256Digest(KeyBytes(pair.user_id, pair.day, pair.question)))
        /\ pair.day <= 2 => pair.card = ReferenceCards(pair.question, pair.user_id)[pair.day + 1]
        /\ (pair.user_id = 42 /\ pair.day = 1 /\ pair.question = TXT_Will_I_succeed_today)
              => /\ KeyBytes(pair.user_id, pair.day, pair.question) = KEY_scenario
                 /\ YesNoKey(42, DayAt(1), NormalizeQuestion(pair.question)) = KEY_scenario

\* the selector has been called for user 42 with "Will I succeed today?" on
\* 2024-01-01 and has returned 37, the value the digest of the key gives
C16_Witness ==
    \E pair \in sel :
        /\ pair.user_id = 42
        /\ DayAt(pair.day) = [year |-> 2024, month |-> 1, day |-> 1]
        /\ pair.question = TXT_Will_I_succeed_today
        /\ pair.card = 37

\* C4: for one user and one day the selector returns the same card for two
\* questions that differ only in letter case, in leading or trailing
\* whitespace or in the length of inner whitespace runs; an absent question
\* gives the card of the empty question.
C4_CosmeticEditsKeepCard ==
    \A pair \in sel : pair.card = pair.other_card

\* a question and its edited spelling, which differ, have been compared
C4_Witness ==
    \E pair \in sel :
        /\ pair.edits = MaxEdits
        /\ pair.question = TXT_da_li
        /\ pair.other # pair.question
        /\ Lower(pair.other) # Lower(pair.question)
        /\ pair.card = pair.other_card

=============================================================================
